---- MODULE Spec2Model ----
(***************************************************************************)
(* Model of examples/pipelinestatistics/pipelinestatistics.cpp: the        *)
(* VulkanExample class (feature selection, query pool creation, pipeline   *)
(* (re)creation, per-frame command recording with the statistics query,    *)
(* query read-back and the settings overlay), together with the device     *)
(* queue that executes the submitted command buffers.                      *)
(***************************************************************************)
EXTENDS Integers, Sequences, FiniteSets, TLC

(* ----------------------------- bounds ---------------------------------- *)
MaxFrames == 3        \* render() calls per behaviour
MaxGridInput == 1     \* the grid slider is moved to values in 1..MaxGridInput
MaxHandles == 2       \* handle values the driver hands out per object type

(* ------------------------ program constants ---------------------------- *)
VK_NULL_HANDLE == 0
VK_CULL_MODE_NONE == 0
VK_CULL_MODE_BACK_BIT == 2
SphereIndex == 0
InitialObjectIndex == 3
InitialGridSize == 3
GridSliderMin == 1
GridSliderMax == 10
BaseQueryCount == 6
TessQueryCount == 8
BaseStageCount == 2
TessStageCount == 4
StatisticsQuery == 0
FrameCount == 2

Min(a, b) == IF a < b THEN a ELSE b

modelNames == <<"Sphere", "Teapot", "Torusknot", "Venus">>
cullModeNames == <<"None", "Front", "Back", "Back and front">>

Handles == 1..MaxHandles
LayoutHandles == {MaxHandles + 1}
FeatureNames == {"pipelineStatisticsQuery", "fillModeNonSolid", "tessellationShader"}
NoFeatures == [f \in FeatureNames |-> FALSE]

VARIABLES
    pc,               \* "constructed", "features", "prepared" or "exited"
    deviceFeatures,   \* what the physical device reports
    enabledFeatures,  \* what the program asks the logical device for
    exitFatalCalls,   \* number of vks::tools::exitFatal calls made
    objectIndex, gridSize, cullMode, blending, discard, wireframe, tessellation,
    pipeline, pipelineLayout,
    pipelineInfo,     \* create info the live pipeline object was built from
    alive,            \* pipeline objects created and not destroyed
    layoutCreates,    \* number of vkCreatePipelineLayout calls made
    peakAlive,        \* largest number of pipeline objects alive at once
    destroyedInUse,   \* a pipeline was destroyed while a pending command buffer binds it
    pipelineStats, pipelineStatNames, queryPool,
    frameIndex,       \* number of render() calls completed
    commandBuffer,    \* commands recorded by the latest render()
    gpu,              \* device queue: pending submissions and the state of query 0
    readSawSubmit,    \* a statistics command buffer had been submitted at the latest read
    calls             \* host API calls made by the latest step

settingsVars == <<objectIndex, gridSize, cullMode, blending, discard, wireframe, tessellation>>
pipelineVars == <<pipeline, pipelineLayout, pipelineInfo, alive, layoutCreates, peakAlive, destroyedInUse>>
queryVars == <<pipelineStats, pipelineStatNames, queryPool>>
frameVars == <<frameIndex, commandBuffer, readSawSubmit>>
featureVars == <<deviceFeatures, enabledFeatures, exitFatalCalls>>
vars == <<pc, featureVars, settingsVars, pipelineVars, queryVars, frameVars, gpu, calls>>

(* ------------------------------ queue ---------------------------------- *)
\* query 0 of the pool: never reset, reset (unavailable) or available with the
\* results of the frame whose command buffer ended it
IdleGpu == [inFlight |-> <<>>, started |-> FALSE, avail |-> FALSE, result |-> 0, submitted |-> 0]

\* the queue starts the oldest pending command buffer: its vkCmdResetQueryPool
\* makes query 0 unavailable
Start(q) ==
    IF q.inFlight = <<>> \/ q.started THEN q
    ELSE [q EXCEPT !.started = TRUE,
                   !.avail = IF Head(q.inFlight).reset THEN FALSE ELSE q.avail]

\* the started command buffer completes: its vkCmdEndQuery makes the results of
\* its frame available and the frame's fence is signalled
Finish(q) ==
    IF q.inFlight = <<>> \/ ~q.started THEN q
    ELSE [q EXCEPT !.started = FALSE,
                   !.inFlight = Tail(q.inFlight),
                   !.avail = IF Head(q.inFlight).query THEN TRUE ELSE q.avail,
                   !.result = IF Head(q.inFlight).query THEN Head(q.inFlight).frame ELSE q.result]

RECURSIVE vkQueueWaitIdle(_)
\* blocks until every pending command buffer has completed
vkQueueWaitIdle(q) ==
    IF q.inFlight = <<>> THEN q ELSE vkQueueWaitIdle(Finish(Start(q)))

\* the fence of frame slot s is signalled: no pending submission uses the slot
FenceSignalled(q, s) ==
    \A i \in DOMAIN q.inFlight : q.inFlight[i].slot # s

\* without VK_QUERY_RESULT_WAIT_BIT nothing is written for an unavailable query
vkGetQueryPoolResults(q, stats) ==
    IF q.avail THEN [i \in 1..Len(stats) |-> q.result] ELSE stats

Init ==
    /\ pc = "constructed"
    /\ deviceFeatures \in [FeatureNames -> BOOLEAN]
    /\ enabledFeatures = NoFeatures
    /\ exitFatalCalls = 0
    /\ objectIndex = InitialObjectIndex
    /\ gridSize = InitialGridSize
    /\ cullMode = VK_CULL_MODE_BACK_BIT
    /\ blending = FALSE
    /\ discard = FALSE
    /\ wireframe = FALSE
    /\ tessellation = FALSE
    /\ pipeline = VK_NULL_HANDLE
    /\ pipelineLayout = VK_NULL_HANDLE
    /\ pipelineInfo = <<>>
    /\ alive = {}
    /\ layoutCreates = 0
    /\ peakAlive = 0
    /\ destroyedInUse = FALSE
    /\ pipelineStats = <<>>
    /\ pipelineStatNames = <<>>
    /\ queryPool = VK_NULL_HANDLE
    /\ frameIndex = 0
    /\ commandBuffer = <<>>
    /\ gpu = IdleGpu
    /\ readSawSubmit = FALSE
    /\ calls = <<>>

(* ------------------------ getEnabledFeatures --------------------------- *)
FatalCondition_anyFeatureMissing == \E f \in FeatureNames : ~deviceFeatures[f]

\* vks::tools::exitFatal is called in the else branch of the first test only
FatalCondition == ~deviceFeatures["pipelineStatisticsQuery"]

\* each feature the device reports is switched on; the others keep their value
EnabledAfter ==
    [f \in FeatureNames |-> IF deviceFeatures[f] THEN TRUE ELSE enabledFeatures[f]]

\* exitFatal ends the process on desktop builds and returns on Android builds
getEnabledFeatures ==
    /\ pc = "constructed"
    /\ calls' = <<"getEnabledFeatures">> \o (IF FatalCondition THEN <<"exitFatal">> ELSE <<>>)
    /\ exitFatalCalls' = exitFatalCalls + (IF FatalCondition THEN 1 ELSE 0)
    /\ \/ /\ FatalCondition
          /\ pc' = "exited"
          /\ enabledFeatures' = enabledFeatures
       \/ /\ pc' = "features"
          /\ enabledFeatures' = EnabledAfter
    /\ UNCHANGED <<deviceFeatures, settingsVars, pipelineVars, queryVars, frameVars, gpu>>

(* -------------------------- createQueryPool ---------------------------- *)
BaseStatNames ==
    << "Input assembly vertex count        ",
       "Input assembly primitives count    ",
       "Vertex shader invocations          ",
       "Clipping stage primitives processed",
       "Clipping stage primitives output    ",
       "Fragment shader invocations        " >>

TessStatNames ==
    << "Tess. control shader patches       ",
       "Tess. eval. shader invocations     " >>

StatNames ==
    BaseStatNames \o (IF deviceFeatures["tessellationShader"] THEN TessStatNames ELSE <<>>)

StatisticBits ==
    { "INPUT_ASSEMBLY_VERTICES_BIT", "INPUT_ASSEMBLY_PRIMITIVES_BIT",
      "VERTEX_SHADER_INVOCATIONS_BIT", "CLIPPING_INVOCATIONS_BIT",
      "CLIPPING_PRIMITIVES_BIT", "FRAGMENT_SHADER_INVOCATIONS_BIT" }
    \cup (IF deviceFeatures["tessellationShader"]
          THEN { "TESSELLATION_CONTROL_SHADER_PATCHES_BIT",
                 "TESSELLATION_EVALUATION_SHADER_INVOCATIONS_BIT" }
          ELSE {})

QueryCount_ignoresTessellation == BaseQueryCount

QueryCount == IF deviceFeatures["tessellationShader"] THEN TessQueryCount ELSE BaseQueryCount

createQueryPool ==
    /\ pipelineStatNames' = StatNames
    /\ pipelineStats' = [i \in 1..Len(StatNames) |-> 0]
    /\ queryPool' = [queryType |-> "VK_QUERY_TYPE_PIPELINE_STATISTICS",
                     pipelineStatistics |-> StatisticBits,
                     queryCount |-> QueryCount]

(* -------------------------- createPipelines ---------------------------- *)
Settings ==
    [cullMode |-> cullMode, blending |-> blending, discard |-> discard,
     wireframe |-> wireframe, tessellation |-> tessellation]

PipelineCreateInfo_depthWriteKept(s, layout) ==
    [layout |-> layout,
     topology |-> IF s.tessellation THEN "PATCH_LIST" ELSE "TRIANGLE_LIST",
     tessellationState |-> s.tessellation,
     stageCount |-> IF s.tessellation THEN TessStageCount ELSE BaseStageCount,
     polygonMode |-> IF s.wireframe THEN "LINE" ELSE "FILL",
     cullMode |-> s.cullMode,
     rasterizerDiscardEnable |-> s.discard,
     blendEnable |-> s.blending,
     depthWriteEnable |-> TRUE]

\* the state of VkGraphicsPipelineCreateInfo handed to vkCreateGraphicsPipelines
PipelineCreateInfo(s, layout) ==
    [layout |-> layout,
     topology |-> IF s.tessellation THEN "PATCH_LIST" ELSE "TRIANGLE_LIST",
     tessellationState |-> s.tessellation,
     stageCount |-> IF s.tessellation THEN TessStageCount ELSE BaseStageCount,
     polygonMode |-> IF s.wireframe THEN "LINE" ELSE "FILL",
     cullMode |-> s.cullMode,
     rasterizerDiscardEnable |-> s.discard,
     blendEnable |-> s.blending,
     depthWriteEnable |-> ~s.blending]

QueueBeforeDestroy_noWait(q) == q

\* if the pipeline needs to be recreated, wait for all command buffers first
QueueBeforeDestroy(q) ==
    IF pipeline # VK_NULL_HANDLE THEN vkQueueWaitIdle(q) ELSE q

Binds(q, h) == \E i \in DOMAIN q.inFlight : q.inFlight[i].pipeline = h

AliveAfterDestroy ==
    IF pipeline # VK_NULL_HANDLE THEN alive \ {pipeline} ELSE alive

createPipelinesCalls ==
    <<"createPipelines">>
    \o (IF pipelineLayout = VK_NULL_HANDLE THEN <<"vkCreatePipelineLayout">> ELSE <<>>)
    \o (IF pipeline # VK_NULL_HANDLE THEN <<"vkQueueWaitIdle", "vkDestroyPipeline">> ELSE <<>>)
    \o <<"vkCreateGraphicsPipelines">>

\* hl, hp: the handles the driver returns for a new layout and the new pipeline
createPipelines(s, hl, hp) ==
    LET layout == IF pipelineLayout = VK_NULL_HANDLE THEN hl ELSE pipelineLayout
        q == QueueBeforeDestroy(gpu)
        aliveNow == AliveAfterDestroy \cup {hp}
    IN  /\ hp \notin AliveAfterDestroy
        /\ pipelineLayout' = layout
        /\ layoutCreates' = layoutCreates + (IF pipelineLayout = VK_NULL_HANDLE THEN 1 ELSE 0)
        /\ gpu' = q
        /\ destroyedInUse' = (destroyedInUse \/ (pipeline # VK_NULL_HANDLE /\ Binds(q, pipeline)))
        /\ alive' = aliveNow
        /\ peakAlive' = IF Cardinality(aliveNow) > peakAlive THEN Cardinality(aliveNow) ELSE peakAlive
        /\ pipeline' = hp
        /\ pipelineInfo' = PipelineCreateInfo(s, layout)

(* ------------------------------ prepare -------------------------------- *)
prepare ==
    /\ pc = "features"
    /\ pc' = "prepared"
    /\ createQueryPool
    /\ \E hl \in LayoutHandles, hp \in Handles : createPipelines(Settings, hl, hp)
    /\ calls' = <<"prepare", "createQueryPool">> \o createPipelinesCalls
    /\ UNCHANGED <<featureVars, settingsVars, frameVars>>

(* ------------------------------- render -------------------------------- *)
Cmd(op, arg) == [op |-> op, arg |-> arg]

\* the grid loop: one push constant and one model draw per cell, row by row
DrawGrid(n, obj) ==
    [k \in 1..(2 * n * n) |->
        IF k % 2 = 1
        THEN Cmd("vkCmdPushConstants", <<((k - 1) \div 2) % n, ((k - 1) \div 2) \div n>>)
        ELSE Cmd("draw", obj)]

RecordCommands_overlayInsideQuery(n, obj, pipe, layout, count) ==
    << Cmd("vkCmdResetQueryPool", count),
       Cmd("vkCmdBeginRenderPass", 0),
       Cmd("vkCmdSetViewport", 0),
       Cmd("vkCmdSetScissor", 0),
       Cmd("vkCmdBeginQuery", StatisticsQuery),
       Cmd("vkCmdBindDescriptorSets", layout),
       Cmd("vkCmdBindPipeline", pipe),
       Cmd("vkCmdBindPipeline", pipe),
       Cmd("vkCmdBindDescriptorSets", layout),
       Cmd("bindBuffers", obj) >>
    \o DrawGrid(n, obj)
    \o << Cmd("UIOverlay.draw", 0),
          Cmd("vkCmdEndQuery", StatisticsQuery),
          Cmd("vkCmdEndRenderPass", 0) >>

RecordCommands_noQuery(n, obj, pipe, layout, count) ==
    << Cmd("vkCmdBeginRenderPass", 0),
       Cmd("vkCmdSetViewport", 0),
       Cmd("vkCmdSetScissor", 0),
       Cmd("vkCmdBindDescriptorSets", layout),
       Cmd("vkCmdBindPipeline", pipe),
       Cmd("bindBuffers", obj) >>
    \o DrawGrid(n, obj)
    \o << Cmd("UIOverlay.draw", 0),
          Cmd("vkCmdEndRenderPass", 0) >>

RecordCommands(n, obj, pipe, layout, count) ==
    << Cmd("vkCmdResetQueryPool", count),
       Cmd("vkCmdBeginRenderPass", 0),
       Cmd("vkCmdSetViewport", 0),
       Cmd("vkCmdSetScissor", 0),
       Cmd("vkCmdBeginQuery", StatisticsQuery),
       Cmd("vkCmdBindDescriptorSets", layout),
       Cmd("vkCmdBindPipeline", pipe),
       Cmd("vkCmdBindPipeline", pipe),
       Cmd("vkCmdBindDescriptorSets", layout),
       Cmd("bindBuffers", obj) >>
    \o DrawGrid(n, obj)
    \o << Cmd("vkCmdEndQuery", StatisticsQuery),
          Cmd("UIOverlay.draw", 0),
          Cmd("vkCmdEndRenderPass", 0) >>

Has(cb, op) == \E i \in DOMAIN cb : cb[i].op = op

\* the queue submission made by VulkanExampleBase::submitFrame
submitFrame(q, cb, frame) ==
    LET entry == [frame |-> frame,
                  slot |-> (frame - 1) % FrameCount,
                  pipeline |-> IF Has(cb, "vkCmdBindPipeline")
                               THEN cb[CHOOSE i \in DOMAIN cb : cb[i].op = "vkCmdBindPipeline"].arg
                               ELSE 0,
                  reset |-> Has(cb, "vkCmdResetQueryPool"),
                  query |-> Has(cb, "vkCmdBeginQuery") /\ Has(cb, "vkCmdEndQuery")]
    IN  [q EXCEPT !.inFlight = Append(q.inFlight, entry),
                  !.submitted = q.submitted + (IF entry.query THEN 1 ELSE 0)]

render ==
    /\ pc = "prepared"
    /\ FenceSignalled(gpu, frameIndex % FrameCount)
    /\ LET cb == RecordCommands(gridSize, objectIndex, pipeline, pipelineLayout, Len(pipelineStats))
       IN  /\ pipelineStats' = vkGetQueryPoolResults(gpu, pipelineStats)
           /\ readSawSubmit' = (gpu.submitted > 0)
           /\ commandBuffer' = cb
           /\ gpu' = submitFrame(gpu, cb, frameIndex + 1)
    /\ frameIndex' = frameIndex + 1
    /\ calls' = <<"render", "prepareFrame", "vkGetQueryPoolResults", "vkBeginCommandBuffer",
                  "vkEndCommandBuffer", "submitFrame">>
    /\ UNCHANGED <<pc, featureVars, settingsVars, pipelineVars, pipelineStatNames, queryPool>>

(* ------------------------- OnUpdateUIOverlay --------------------------- *)
\* what the user does to the widgets during one overlay update: the "Settings"
\* header is open or collapsed, and each widget is left alone or set to a value
ObjectInputs == {objectIndex, SphereIndex}
GridInputs == {gridSize} \cup (GridSliderMin..Min(GridSliderMax, MaxGridInput))
CullInputs == {cullMode, VK_CULL_MODE_NONE}

Untouched ==
    [headerOpen |-> FALSE, objectIndex |-> objectIndex, gridSize |-> gridSize,
     cullMode |-> cullMode, blending |-> blending, wireframe |-> wireframe,
     tessellation |-> tessellation, discard |-> discard]

\* every combination of widget values
UIInputs ==
    { ui \in [headerOpen : BOOLEAN, objectIndex : ObjectInputs, gridSize : GridInputs,
              cullMode : CullInputs, blending : BOOLEAN, wireframe : BOOLEAN,
              tessellation : BOOLEAN, discard : BOOLEAN] :
        ui.headerOpen \/ ui = Untouched }

\* the user leaves the object type and the grid size alone
FlagUIInputs ==
    { ui \in UIInputs : ui.objectIndex = objectIndex /\ ui.gridSize = gridSize }

\* the user only moves the grid slider and the blending and tessellation boxes
FrameUIInputs ==
    { ui \in UIInputs :
        /\ ui.objectIndex = objectIndex
        /\ ui.cullMode = cullMode
        /\ ui.wireframe = wireframe
        /\ ui.discard = discard }

\* UIOverlay::comboBox and UIOverlay::checkBox store the value the user picked
\* and return true when that changed the value
comboBox(old, new) == new # old
checkBox(old, new) == new # old

\* the wireframe and tessellation check boxes exist only with the device feature
WireframeShown == deviceFeatures["fillModeNonSolid"]
TessellationShown_always == TRUE
TessellationShown == deviceFeatures["tessellationShader"]

CullModeChanged(ui) == comboBox(cullMode, ui.cullMode)
BlendingChanged(ui) == checkBox(blending, ui.blending)
WireframeChanged(ui) == WireframeShown /\ checkBox(wireframe, ui.wireframe)
TessellationChanged(ui) == TessellationShown /\ checkBox(tessellation, ui.tessellation)
DiscardChanged(ui) == checkBox(discard, ui.discard)

recreatePipelines_lastWidgetOnly(ui) ==
    /\ ui.headerOpen
    /\ DiscardChanged(ui)

recreatePipelines_gridSizeToo(ui) ==
    /\ ui.headerOpen
    /\ \/ CullModeChanged(ui)
       \/ BlendingChanged(ui)
       \/ WireframeChanged(ui)
       \/ TessellationChanged(ui)
       \/ DiscardChanged(ui)
       \/ ui.gridSize # gridSize

recreatePipelines(ui) ==
    /\ ui.headerOpen
    /\ \/ CullModeChanged(ui)
       \/ BlendingChanged(ui)
       \/ WireframeChanged(ui)
       \/ TessellationChanged(ui)
       \/ DiscardChanged(ui)

\* the values of the five pipeline settings after the widgets have run
SettingsAfter(ui) ==
    IF ui.headerOpen
    THEN [cullMode |-> ui.cullMode,
          blending |-> ui.blending,
          discard |-> ui.discard,
          wireframe |-> IF WireframeShown THEN ui.wireframe ELSE wireframe,
          tessellation |-> IF TessellationShown THEN ui.tessellation ELSE tessellation]
    ELSE Settings

\* the pipeline statistics header only prints pipelineStats and changes nothing
OnUpdateUIOverlay(ui) ==
    /\ pc = "prepared"
    /\  /\ objectIndex' = (IF ui.headerOpen THEN ui.objectIndex ELSE objectIndex)
        /\ gridSize' = (IF ui.headerOpen THEN ui.gridSize ELSE gridSize)
        /\ cullMode' = SettingsAfter(ui).cullMode
        /\ blending' = SettingsAfter(ui).blending
        /\ discard' = SettingsAfter(ui).discard
        /\ wireframe' = SettingsAfter(ui).wireframe
        /\ tessellation' = SettingsAfter(ui).tessellation
        /\ IF recreatePipelines(ui)
           THEN /\ \E hl \in LayoutHandles, hp \in Handles : createPipelines(SettingsAfter(ui), hl, hp)
                /\ calls' = <<"OnUpdateUIOverlay">> \o createPipelinesCalls
           ELSE /\ calls' = <<"OnUpdateUIOverlay">>
                /\ UNCHANGED <<pipelineVars, gpu>>
    /\ UNCHANGED <<pc, featureVars, queryVars, frameVars>>

(* ---------------------------- device queue ----------------------------- *)
GpuStart ==
    /\ gpu.inFlight # <<>>
    /\ ~gpu.started
    /\ gpu' = Start(gpu)
    /\ calls' = <<>>
    /\ UNCHANGED <<pc, featureVars, settingsVars, pipelineVars, queryVars, frameVars>>

GpuFinish ==
    /\ gpu.started
    /\ gpu' = Finish(gpu)
    /\ calls' = <<>>
    /\ UNCHANGED <<pc, featureVars, settingsVars, pipelineVars, queryVars, frameVars>>

RenderFrame == frameIndex < MaxFrames /\ render
UpdateOverlay == \E ui \in FrameUIInputs : OnUpdateUIOverlay(ui)

Next ==
    \/ getEnabledFeatures
    \/ prepare
    \/ RenderFrame
    \/ UpdateOverlay
    \/ GpuStart
    \/ GpuFinish

Spec == Init /\ [][Next]_vars

\* the settings overlay alone, with every combination of widget values
UpdateOverlayAny == \E ui \in UIInputs : OnUpdateUIOverlay(ui)

NextUI ==
    \/ getEnabledFeatures
    \/ prepare
    \/ UpdateOverlayAny

SpecUI == Init /\ [][NextUI]_vars

\* every combination of the five pipeline settings, around the frames that
\* can be recorded before the first fence wait
RenderAhead == frameIndex < FrameCount /\ render
UpdateOverlayFlags == \E ui \in FlagUIInputs : OnUpdateUIOverlay(ui)

NextFlags ==
    \/ getEnabledFeatures
    \/ prepare
    \/ RenderAhead
    \/ UpdateOverlayFlags

SpecFlags == Init /\ [][NextFlags]_vars

(* ============================== claims ================================= *)
Count(seq, x) == Cardinality({i \in DOMAIN seq : seq[i] = x})
At(cb, op) == {i \in DOMAIN cb : cb[i].op = op}
Only(cb, op) == CHOOSE i \in At(cb, op) : TRUE

\* the order of the commands of one recorded command buffer for an n x n grid
WellOrdered(cb, n) ==
    /\ Cardinality(At(cb, "vkCmdResetQueryPool")) = 1
    /\ Cardinality(At(cb, "vkCmdBeginRenderPass")) = 1
    /\ Cardinality(At(cb, "vkCmdBeginQuery")) = 1
    /\ Cardinality(At(cb, "vkCmdEndQuery")) = 1
    /\ Cardinality(At(cb, "UIOverlay.draw")) = 1
    /\ Cardinality(At(cb, "vkCmdEndRenderPass")) = 1
    /\ Cardinality(At(cb, "draw")) = n * n
    /\ cb[Only(cb, "vkCmdBeginQuery")].arg = 0
    /\ cb[Only(cb, "vkCmdEndQuery")].arg = 0
    /\ Only(cb, "vkCmdResetQueryPool") < Only(cb, "vkCmdBeginRenderPass")
    /\ Only(cb, "vkCmdBeginRenderPass") < Only(cb, "vkCmdBeginQuery")
    /\ \A d \in At(cb, "draw") :
          Only(cb, "vkCmdBeginQuery") < d /\ d < Only(cb, "vkCmdEndQuery")
    /\ Only(cb, "vkCmdEndQuery") < Only(cb, "UIOverlay.draw")
    /\ Only(cb, "UIOverlay.draw") < Only(cb, "vkCmdEndRenderPass")
    /\ Only(cb, "vkCmdEndRenderPass") = Len(cb)

\* C1: every command buffer recorded by a render() call holds, in this order,
\* one reset of the query pool, the begin of the render pass, one begin of
\* query 0, gridSize * gridSize model draws, one end of query 0, the overlay
\* draw and the end of the render pass.
C1_CommandOrder ==
    [][frameIndex' = frameIndex + 1 => WellOrdered(commandBuffer', gridSize')]_vars

C1_Witness ==
    /\ frameIndex >= 2
    /\ gridSize = GridSliderMin
    /\ Cardinality(At(commandBuffer, "draw")) = 1
    /\ calls # <<>> /\ Head(calls) = "render"

\* C2 as stated: at the read of every render() call, the first included, a
\* command buffer that recorded the statistics query has been submitted.
C2_ReadAfterSubmission ==
    frameIndex >= 1 => readSawSubmit

\* C2 as amended: at the read of every render() call but the first, a command
\* buffer that recorded the statistics query has been submitted, and at the
\* read of the first call none has.
C2_ReadAfterSubmissionFromSecondFrame ==
    /\ frameIndex >= 2 => readSawSubmit
    /\ frameIndex = 1 => ~readSawSubmit

C2_Witness ==
    /\ frameIndex >= 2
    /\ readSawSubmit
    /\ calls # <<>> /\ Head(calls) = "render"

\* C3: once the query pool exists, its queryCount, the number of statistic
\* bits requested, the number of counter names and the length of the result
\* vector are all 8 on a device with tessellation shaders and 6 otherwise,
\* and stay so.
C3_PoolSizedToCounters ==
    pc = "prepared" =>
        LET n == IF deviceFeatures["tessellationShader"] THEN 8 ELSE 6
        IN  /\ queryPool.queryCount = n
            /\ Cardinality(queryPool.pipelineStatistics) = n
            /\ Len(pipelineStatNames) = n
            /\ Len(pipelineStats) = n

C3_Witness ==
    /\ pc = "prepared"
    /\ deviceFeatures["tessellationShader"]
    /\ frameIndex >= 2
    /\ Len(pipelineStats) = 8
    /\ pipelineStats[8] >= 1

FlagsChange ==
    \/ cullMode' # cullMode
    \/ blending' # blending
    \/ wireframe' # wireframe
    \/ tessellation' # tessellation
    \/ discard' # discard

\* C4: an overlay update that changes any of cull mode, blending, wireframe,
\* tessellation or discard calls createPipelines() exactly once.
C4_ChangeRecreatesOnce ==
    [][FlagsChange =>
         /\ Head(calls') = "OnUpdateUIOverlay"
         /\ Count(calls', "createPipelines") = 1
         /\ Count(calls', "vkCreateGraphicsPipelines") = 1]_vars

C4_Witness ==
    /\ calls # <<>> /\ Head(calls) = "OnUpdateUIOverlay"
    /\ Count(calls, "createPipelines") = 1
    /\ cullMode = VK_CULL_MODE_NONE /\ blending /\ wireframe /\ tessellation /\ discard

\* C5: exitFatal is called exactly when the device lacks
\* pipelineStatisticsQuery, and at most once; a missing fillModeNonSolid or
\* tessellationShader is not fatal, and when getEnabledFeatures returns each
\* of the three features is enabled exactly when the device reports it.
C5_SingleFatalExit ==
    /\ exitFatalCalls <= 1
    /\ pc # "constructed" =>
          (exitFatalCalls = 1 <=> ~deviceFeatures["pipelineStatisticsQuery"])
    /\ pc \in {"features", "prepared"} =>
          \A f \in FeatureNames : enabledFeatures[f] = deviceFeatures[f]

C5_Witness ==
    /\ pc = "prepared"
    /\ deviceFeatures["pipelineStatisticsQuery"]
    /\ ~deviceFeatures["fillModeNonSolid"]
    /\ ~deviceFeatures["tessellationShader"]
    /\ exitFatalCalls = 0
    /\ ~enabledFeatures["fillModeNonSolid"]

\* C6: an overlay update that changes none of the five pipeline settings
\* (only the object type and/or the grid size, or nothing) does not call
\* createPipelines() and leaves the pipeline and pipeline layout handles as
\* they were.
C6_NoRecreationWithoutChange ==
    [][(Head(calls') = "OnUpdateUIOverlay" /\ ~FlagsChange) =>
         /\ Count(calls', "createPipelines") = 0
         /\ pipeline' = pipeline
         /\ pipelineLayout' = pipelineLayout]_vars

C6_Witness ==
    /\ calls = <<"OnUpdateUIOverlay">>
    /\ objectIndex # InitialObjectIndex
    /\ gridSize # InitialGridSize
    /\ Settings = [cullMode |-> VK_CULL_MODE_BACK_BIT, blending |-> FALSE, discard |-> FALSE,
                   wireframe |-> FALSE, tessellation |-> FALSE]
    /\ pipeline # VK_NULL_HANDLE

\* C7 as stated: after the read of render() call N (N >= 2) every entry of
\* pipelineStats holds the results of the query of frame N-1.
C7_StatsOfPreviousFrame ==
    frameIndex >= 2 =>
        \A i \in DOMAIN pipelineStats : pipelineStats[i] = frameIndex - 1

\* C8: the pipeline layout is created once, by the first createPipelines();
\* at most one pipeline object is alive at any time; a pipeline is destroyed
\* only after vkQueueWaitIdle, never while a pending command buffer binds it,
\* and before its replacement is created.
C8_PipelineLifetime ==
    /\ layoutCreates <= 1
    /\ pc = "prepared" => (layoutCreates = 1 /\ alive = {pipeline})
    /\ Cardinality(alive) <= 1
    /\ peakAlive <= 1
    /\ ~destroyedInUse
    /\ \A i \in DOMAIN calls :
          calls[i] = "vkDestroyPipeline" =>
              /\ \E j \in 1..(i - 1) : calls[j] = "vkQueueWaitIdle"
              /\ \A k \in DOMAIN calls : calls[k] = "vkCreateGraphicsPipelines" => i < k

C8_Witness ==
    /\ frameIndex >= 2
    /\ Count(calls, "vkDestroyPipeline") = 1
    /\ gpu.inFlight = <<>>
    /\ gpu.result = frameIndex

InfoMatches(ci, s) ==
    /\ (ci.stageCount = 4) <=> s.tessellation
    /\ (ci.stageCount = 2) <=> ~s.tessellation
    /\ (ci.topology = "PATCH_LIST") <=> s.tessellation
    /\ (ci.topology = "TRIANGLE_LIST") <=> ~s.tessellation
    /\ ci.tessellationState <=> s.tessellation
    /\ ci.blendEnable <=> s.blending
    /\ ci.depthWriteEnable <=> ~s.blending
    /\ ci.rasterizerDiscardEnable <=> s.discard
    /\ (ci.polygonMode = "LINE") <=> s.wireframe
    /\ ci.cullMode = s.cullMode

\* C9: after prepare() the live pipeline is always the one built from the
\* current cull mode, blending, discard, wireframe and tessellation settings,
\* and the command buffer a render() call records binds that pipeline.
C9_PipelineMatchesFlags ==
    pc = "prepared" =>
        /\ pipeline \in alive
        /\ InfoMatches(pipelineInfo, Settings)
        /\ (calls # <<>> /\ Head(calls) = "render") =>
              \A i \in At(commandBuffer, "vkCmdBindPipeline") : commandBuffer[i].arg = pipeline

C9_Witness ==
    /\ calls # <<>> /\ Head(calls) = "render"
    /\ frameIndex = 2
    /\ cullMode = VK_CULL_MODE_NONE /\ blending /\ discard /\ wireframe /\ tessellation
    /\ pipelineInfo.stageCount = 4

\* C10: tessellation is on only on a device whose tessellationShader feature
\* is supported and enabled, wireframe only with fillModeNonSolid; so no
\* pipeline is built with tessellation stages or line polygon mode without
\* the feature.
C10_OptionalFeatureGating ==
    /\ tessellation => (deviceFeatures["tessellationShader"] /\ enabledFeatures["tessellationShader"])
    /\ wireframe => (deviceFeatures["fillModeNonSolid"] /\ enabledFeatures["fillModeNonSolid"])
    /\ pc = "prepared" =>
          /\ (pipelineInfo.stageCount = 4 \/ pipelineInfo.topology = "PATCH_LIST"
                \/ pipelineInfo.tessellationState) => enabledFeatures["tessellationShader"]
          /\ pipelineInfo.polygonMode = "LINE" => enabledFeatures["fillModeNonSolid"]

C10_Witness ==
    /\ pc = "prepared"
    /\ ~deviceFeatures["tessellationShader"]
    /\ deviceFeatures["fillModeNonSolid"]
    /\ wireframe
    /\ pipelineInfo.polygonMode = "LINE"
    /\ pipelineInfo.stageCount = 2
====
